---------------------------- MODULE Spec2Model ----------------------------
(***************************************************************************)
(* Model of the song resolution core of ragam:                             *)
(*   - src/server.cjs: JioSaavn.search / _findMatchingTrack, /scrape,      *)
(*     /proxy and its manifest rewriting                                   *)
(*   - src/src/services/youtubeService.js: getAudioUrlForTrack and the     *)
(*     JioSaavn and YouTube resolution paths, getStreamUrl                 *)
(* Text is modelled as a sequence of one-character strings.                *)
(***************************************************************************)
EXTENDS Integers, Sequences, FiniteSets, TLC

VARIABLES
    \* --- JioSaavn.search / _findMatchingTrack (server.cjs) ---
    title,          \* req.query.title
    artist,         \* req.query.artist || ""
    rawResults,     \* data.results of the upstream answer
    matchingTrack,  \* value returned by _findMatchingTrack
    searchOutcome,  \* what JioSaavn.search returned or threw
    \* --- settings read through instanceService ---
    searchProvider, \* getSearchProvider(): "youtube" or "jiosaavn"
    audioQuality,   \* getAudioQuality(): "low", "medium" or "high"
    \* --- one call of getAudioUrlForTrack (youtubeService.js) ---
    pc,             \* where the call stands
    track,          \* its argument
    provider,       \* const provider of getAudioUrlForTrack
    results,        \* let results of getJioSaavnAudioUrl
    videoId,        \* let videoId of getYouTubeAudioUrl
    calls,          \* the outbound requests issued so far, in order
    outcome,        \* what the call returned or threw
    found,          \* what a call of smartSearch returned or threw
    qualityAtCall,  \* getAudioQuality() at the moment getAudioUrlForTrack was called
    \* --- one request to GET /scrape (server.cjs) ---
    scrapePc,       \* where the handler stands
    scrapeCalls,    \* the extraction providers invoked so far, in order
    invidiousAnswer,\* what the Invidious API answered
    responses,      \* the responses sent for the request, in order
    \* --- one request to GET /proxy (server.cjs) ---
    proxyPc,        \* where the handler stands
    request,        \* req.query.url and req.headers.range
    fetches,        \* the outbound requests issued so far, in order
    upstreamResponse, \* const response: what the outbound fetch gave
    relay,          \* the branch taken: "manifest" or "pipe"
    playlist,       \* the manifest the upstream body holds
    res,            \* the response to the caller
    bodyErrored,    \* response.body emitted 'error'
    \* --- one evaluation of normalize and startsEither (server.cjs) ---
    textA,          \* first string
    textB,          \* second string
    normalized,     \* normalize(textA)
    overlaps        \* startsEither(normalize(textA), normalize(textB))

matchVars == <<title, artist, rawResults, matchingTrack, searchOutcome>>
settingVars == <<searchProvider, audioQuality>>
resolveVars == <<pc, track, provider, results, videoId, calls, outcome, found, qualityAtCall>>
scrapeVars == <<scrapePc, scrapeCalls, invidiousAnswer, responses>>
proxyVars == <<proxyPc, request, fetches, upstreamResponse, relay, playlist, res, bodyErrored>>
textVars == <<textA, textB, normalized, overlaps>>

vars == <<matchVars, settingVars, resolveVars, scrapeVars, proxyVars, textVars>>

(***************************************************************************)
(* Bounds                                                                  *)
(***************************************************************************)
MaxLen == 2       \* longest title query, in characters
MaxCands == 2     \* longest upstream result list
MaxResults == 2   \* longest answer of a search API used by the resolver
MaxFormats == 2   \* longest adaptiveFormats list

(***************************************************************************)
(* JavaScript values                                                       *)
(***************************************************************************)
Undefined == [type |-> "undefined"]
Pending == [type |-> "pending"]
Thrown(msg) == [type |-> "error", message |-> msg]
Returned(v) == [type |-> "return", value |-> v]

(***************************************************************************)
(* Text                                                                    *)
(***************************************************************************)
Chars == {"a", "B", " ", "!"}
LowerCaseLetters == {"a", "b", "c", "d", "e", "f", "g", "h", "i", "j", "k", "l", "m",
                     "n", "o", "p", "q", "r", "s", "t", "u", "v", "w", "x", "y", "z"}
UpperCaseLetters == {"A", "B", "C", "D", "E", "F", "G", "H", "I", "J", "K", "L", "M",
                     "N", "O", "P", "Q", "R", "S", "T", "U", "V", "W", "X", "Y", "Z"}
Digits == {"0", "1", "2", "3", "4", "5", "6", "7", "8", "9"}
\* \w of the regular expression: [A-Za-z0-9_]
WordChars == LowerCaseLetters \cup UpperCaseLetters \cup Digits \cup {"_"}
\* \s of the regular expression (the characters of it the model uses)
WhiteSpace == {" "}

Texts(n) == UNION {[1..k -> Chars] : k \in 0..n}

\* String.prototype.toLowerCase, one character
LowerChar(c) ==
    CASE c = "A" -> "a" [] c = "B" -> "b" [] c = "C" -> "c" [] c = "D" -> "d"
      [] c = "E" -> "e" [] c = "F" -> "f" [] c = "G" -> "g" [] c = "H" -> "h"
      [] c = "I" -> "i" [] c = "J" -> "j" [] c = "K" -> "k" [] c = "L" -> "l"
      [] c = "M" -> "m" [] c = "N" -> "n" [] c = "O" -> "o" [] c = "P" -> "p"
      [] c = "Q" -> "q" [] c = "R" -> "r" [] c = "S" -> "s" [] c = "T" -> "t"
      [] c = "U" -> "u" [] c = "V" -> "v" [] c = "W" -> "w" [] c = "X" -> "x"
      [] c = "Y" -> "y" [] c = "Z" -> "z" [] OTHER -> c

toLowerCase(text) == [i \in 1..Len(text) |-> LowerChar(text[i])]

RECURSIVE trimStart(_)
trimStart(text) ==
    IF text # <<>> /\ Head(text) \in WhiteSpace THEN trimStart(Tail(text)) ELSE text

RECURSIVE trimEnd(_)
trimEnd(text) ==
    IF text # <<>> /\ text[Len(text)] \in WhiteSpace
    THEN trimEnd(SubSeq(text, 1, Len(text) - 1))
    ELSE text

\* String.prototype.trim
trim(text) == trimEnd(trimStart(text))

\* text.replace(/[^\w\s]/g, '')
stripNonWord(text) == SelectSeq(text, LAMBDA c : c \in WordChars \cup WhiteSpace)

\* server.cjs:119  (text || '').toString().trim().toLowerCase().replace(/[^\w\s]/g, '')
normalize(text) == stripNonWord(toLowerCase(trim(text)))

\* String.prototype.startsWith
startsWith(a, b) == Len(b) <= Len(a) /\ SubSeq(a, 1, Len(b)) = b

startsEither_PrefixOnly(a, b) == startsWith(a, b)

\* server.cjs:120
startsEither(a, b) == startsWith(a, b) \/ startsWith(b, a)

(***************************************************************************)
(* JioSaavn._createSongPayload / _parseArtists                             *)
(***************************************************************************)
\* server.cjs:110-116, artists given as plain strings
parseArtists(artists) == [i \in 1..Len(artists) |-> [name |-> artists[i], id |-> <<>>]]

\* server.cjs:93-108, the fields the matcher reads
createSongPayload(rawSong) ==
    [id |-> rawSong.id,
     name |-> rawSong.title,
     artists |-> [primary |-> parseArtists(rawSong.primary_artists),
                  all |-> parseArtists(rawSong.all_artists)]]

processed(songs) == [i \in 1..Len(songs) |-> createSongPayload(songs[i])]

(***************************************************************************)
(* JioSaavn._findMatchingTrack                                             *)
(***************************************************************************)
\* server.cjs:123-126
allArtistsOf(t) ==
    LET joined == t.artists.primary \o t.artists.all
    IN [i \in 1..Len(joined) |-> joined[i].name]

\* server.cjs:128
artistMatches(t, artistQ) ==
    \E i \in 1..Len(allArtistsOf(t)) :
        startsEither(normalize(artistQ), normalize(allArtistsOf(t)[i]))

\* server.cjs:129
titleMatches(t, titleQ) == startsEither(normalize(titleQ), normalize(t.name))

\* server.cjs:122-132, the loop from position i on
RECURSIVE firstFullMatch(_, _, _, _)
firstFullMatch(processedResults, i, titleQ, artistQ) ==
    IF i > Len(processedResults) THEN Undefined
    ELSE IF titleMatches(processedResults[i], titleQ)
            /\ (artistMatches(processedResults[i], artistQ) \/ artistQ = <<>>)
         THEN processedResults[i]
         ELSE firstFullMatch(processedResults, i + 1, titleQ, artistQ)

\* Array.prototype.find over the title test, from position i on
RECURSIVE findTitleMatch(_, _, _)
findTitleMatch(processedResults, i, titleQ) ==
    IF i > Len(processedResults) THEN Undefined
    ELSE IF titleMatches(processedResults[i], titleQ) THEN processedResults[i]
         ELSE findTitleMatch(processedResults, i + 1, titleQ)

fallbackTrack_FirstOnly(processedResults, titleQ) ==
    IF processedResults # <<>> THEN processedResults[1] ELSE Undefined

\* server.cjs:135
fallbackTrack(processedResults, titleQ) ==
    IF findTitleMatch(processedResults, 1, titleQ) # Undefined
    THEN findTitleMatch(processedResults, 1, titleQ)
    ELSE IF processedResults # <<>> THEN processedResults[1] ELSE Undefined

\* server.cjs:118-136
_findMatchingTrack(processedResults, titleQ, artistQ) ==
    IF firstFullMatch(processedResults, 1, titleQ, artistQ) # Undefined
    THEN firstFullMatch(processedResults, 1, titleQ, artistQ)
    ELSE fallbackTrack(processedResults, titleQ)

(***************************************************************************)
(* Inputs of the matcher                                                   *)
(***************************************************************************)
ArtistQueries == {<<>>, <<"a">>, <<"B", "!">>, <<" ">>}
SongTitles == {<<"a">>, <<"a", "b">>, <<"B">>}
ArtistCredits == {[primary_artists |-> <<>>, all_artists |-> <<>>],
                  [primary_artists |-> <<<<"a">>>>, all_artists |-> <<>>],
                  [primary_artists |-> <<>>, all_artists |-> <<<<"b", "a">>>>]}
RawSongs == {[title |-> t, primary_artists |-> c.primary_artists,
              all_artists |-> c.all_artists] : t \in SongTitles, c \in ArtistCredits}
RawResultLists ==
    UNION {{[i \in 1..k |-> [id |-> i, title |-> f[i].title,
                             primary_artists |-> f[i].primary_artists,
                             all_artists |-> f[i].all_artists]] : f \in [1..k -> RawSongs]}
           : k \in 0..MaxCands}

\* A direct call of _findMatchingTrack on the processed list
FindMatchingTrack ==
    /\ matchingTrack = Pending
    /\ searchOutcome = Pending
    /\ matchingTrack' = _findMatchingTrack(processed(rawResults), title, artist)
    /\ UNCHANGED <<title, artist, rawResults, searchOutcome, settingVars, resolveVars,
                   scrapeVars, proxyVars, textVars>>

\* server.cjs:38-59  JioSaavn.search(title, artist)
Search ==
    /\ matchingTrack = Pending
    /\ searchOutcome = Pending
    /\ \E upstream \in {"fetch_rejects", "json_rejects", "answers"} :
         IF upstream = "fetch_rejects"
         THEN /\ searchOutcome' = Thrown("fetch failed")
              /\ UNCHANGED matchingTrack
         ELSE IF upstream = "json_rejects"
         THEN /\ searchOutcome' = Thrown("invalid json")
              /\ UNCHANGED matchingTrack
         ELSE IF Len(rawResults) = 0
         THEN /\ searchOutcome' = Thrown("No results found")
              /\ UNCHANGED matchingTrack
         ELSE /\ matchingTrack' = _findMatchingTrack(processed(rawResults), title, artist)
              /\ searchOutcome' =
                    IF matchingTrack' = Undefined
                    THEN Thrown("No matching track found")
                    ELSE Returned(matchingTrack')
    /\ UNCHANGED <<title, artist, rawResults, settingVars, resolveVars, scrapeVars, proxyVars, textVars>>

\* server.cjs:62-77  JioSaavn.searchAll(query, limit); the status of the
\* answer is not looked at, only whether its body parses
SearchAll ==
    /\ matchingTrack = Pending
    /\ searchOutcome = Pending
    /\ \E upstream \in {"fetch_rejects", "json_rejects", "answers"} :
         searchOutcome' =
            IF upstream = "fetch_rejects" THEN Thrown("fetch failed")
            ELSE IF upstream = "json_rejects" THEN Thrown("invalid json")
            ELSE Returned([results |-> processed(rawResults)])
    /\ UNCHANGED <<title, artist, rawResults, matchingTrack, settingVars, resolveVars,
                   scrapeVars, proxyVars, textVars>>

(***************************************************************************)
(* URLs and the values the resolver handles                                *)
(***************************************************************************)
Url(host, path) == [type |-> "url", host |-> host, path |-> path]
InvalidUrl == [type |-> "text", text |-> "not a url"]
Str(text) == [type |-> "string", text |-> text]
Array(items) == [type |-> "array", items |-> items]
Id(key, length) == [type |-> "id", key |-> key, length |-> length]

\* youtubeService.js:4 and :242
STREAM_API_HOST == "yt.omada.cafe"

Providers == {"youtube", "jiosaavn"}
Qualities == {"low", "medium", "high"}

\* JavaScript truthiness of the values above
truthy(v) == v # Undefined /\ v # Str(<<>>)

\* a || b
orElse(a, b) == IF truthy(a) THEN a ELSE b

\* `${v}` in a template literal
UndefinedText == <<"u", "n", "d", "e", "f", "i", "n", "e", "d">>
template(v) == IF v = Undefined THEN UndefinedText ELSE v.text

\* Array.prototype.join(' ')
RECURSIVE joinSpace(_)
joinSpace(texts) ==
    IF texts = <<>> THEN <<>>
    ELSE IF Len(texts) = 1 THEN texts[1]
    ELSE texts[1] \o <<" ">> \o joinSpace(Tail(texts))

(***************************************************************************)
(* searchJioSaavn  (youtubeService.js:74-125)                              *)
(***************************************************************************)
\* youtubeService.js:85-120, the fields the resolver reads
jioSaavnItem(item) == [name |-> item.name, url |-> item.downloadUrl]

\* The value searchJioSaavn resolves to for an upstream answer; every
\* failure inside its try block is caught and turned into [].
searchJioSaavn(answer) ==
    IF answer.kind # "ok" THEN <<>>
    ELSE [i \in 1..Len(answer.results) |-> jioSaavnItem(answer.results[i])]

(***************************************************************************)
(* searchYouTube  (youtubeService.js:160-196)                              *)
(***************************************************************************)
\* youtubeService.js:172
isStreamItem(item) == ~item.isShort /\ item.type = "stream"

\* youtubeService.js:171-191, the fields the resolver reads
youTubeItems(items) ==
    LET kept == SelectSeq(items, isStreamItem)
    IN [i \in 1..Len(kept) |-> [id |-> kept[i].v, url |-> Undefined]]

\* What searchYouTube returns or throws for an upstream answer; its catch
\* block logs and rethrows.
searchYouTube(answer) ==
    CASE answer.kind = "fetch_rejects" -> Thrown("fetch failed")
      [] answer.kind = "not_ok" -> Thrown("Search API error")
      [] answer.kind = "json_rejects" -> Thrown("invalid json")
      [] answer.kind = "no_items" -> Returned(<<>>)
      [] OTHER -> Returned(youTubeItems(answer.results))

(***************************************************************************)
(* getStreamUrl  (youtubeService.js:199-250)                               *)
(***************************************************************************)
AudioTypes == {"audio/webm", "audio/mp4"}

\* youtubeService.js:215 and server.cjs:180
isAudio(format) == format.type \in AudioTypes

\* Array.prototype.sort is stable: x goes behind every entry that does not
\* have a lower bitrate.
RECURSIVE insertByBitrate(_, _)
insertByBitrate(sorted, x) ==
    IF sorted = <<>> THEN <<x>>
    ELSE IF Head(sorted).bitrate >= x.bitrate
         THEN <<Head(sorted)>> \o insertByBitrate(Tail(sorted), x)
         ELSE <<x>> \o sorted

\* youtubeService.js:224-228 and server.cjs:184, descending by bitrate
RECURSIVE sortByBitrate(_)
sortByBitrate(streams) ==
    IF streams = <<>> THEN <<>>
    ELSE insertByBitrate(sortByBitrate(SubSeq(streams, 1, Len(streams) - 1)),
                         streams[Len(streams)])

\* youtubeService.js:230-238, as a position (from 1) in the sorted list
selectedIndex(n, quality) ==
    IF quality = "high" THEN 1
    ELSE IF quality = "low" THEN n
    ELSE (n \div 2) + 1

\* new URL(u); u.hostname = host; u.toString()
withHostname(url, host) == Url(host, url.path)

\* What getStreamUrl returns or throws for an upstream answer, the quality
\* being the one getAudioQuality() gives when the answer has arrived.
getStreamUrl(answer, quality) ==
    CASE answer.kind = "fetch_rejects" -> Thrown("fetch failed")
      [] answer.kind = "not_ok" -> Thrown("Stream API error")
      [] answer.kind = "json_rejects" -> Thrown("invalid json")
      [] answer.kind = "no_formats" -> Thrown("No adaptive formats found")
      [] OTHER ->
          LET audioStreams == sortByBitrate(SelectSeq(answer.adaptiveFormats, isAudio))
              selectedStream == audioStreams[selectedIndex(Len(audioStreams), quality)]
          IN IF answer.adaptiveFormats = <<>> THEN Thrown("No adaptive formats found")
             ELSE IF audioStreams = <<>> THEN Thrown("No audio streams found")
             ELSE IF selectedStream.url.type # "url" THEN Thrown("Invalid URL")
             ELSE Returned(withHostname(selectedStream.url, STREAM_API_HOST))

(***************************************************************************)
(* Inputs of the resolver                                                  *)
(***************************************************************************)
Tracks ==
    [url : {Undefined, Url("cdn.example", 1)},
     id : {Undefined, Id("trackvideo", 11), Id("spotifytrack", 22)},
     name : {Undefined, Str(<<>>), Str(<<"a">>)},
     title : {Undefined, Str(<<>>), Str(<<"B">>)},
     artists : {Undefined, Array(<<>>), Array(<<[name |-> <<"b">>]>>)}]

Lists(pool, n) == UNION {[1..k -> pool] : k \in 0..n}

JioSaavnItems == {[name |-> <<"a">>, downloadUrl |-> Url("aac.saavncdn.com", 1)],
                  [name |-> <<"a", "b">>, downloadUrl |-> Undefined]}
JioSaavnAnswers ==
    {[kind |-> k, results |-> <<>>] : k \in {"fetch_rejects", "not_ok", "json_rejects", "not_array"}}
    \cup {[kind |-> "ok", results |-> r] : r \in Lists(JioSaavnItems, MaxResults)}

PipedItems == {[isShort |-> FALSE, type |-> "stream", v |-> Id("foundvideo1", 11)],
               [isShort |-> TRUE, type |-> "stream", v |-> Id("shortvideo1", 11)],
               [isShort |-> FALSE, type |-> "channel", v |-> Undefined]}
PipedAnswers ==
    {[kind |-> k, results |-> <<>>] : k \in {"fetch_rejects", "not_ok", "json_rejects", "no_items"}}
    \cup {[kind |-> "ok", results |-> r] : r \in Lists(PipedItems, MaxResults)}

AdaptiveFormats ==
    {[type |-> "audio/webm", bitrate |-> b, url |-> Url("rr1.googlevideo.com", b)] : b \in {64, 128, 320}}
    \cup {[type |-> "video/mp4", bitrate |-> 500, url |-> Url("rr1.googlevideo.com", 500)],
          [type |-> "audio/mp4", bitrate |-> 999, url |-> InvalidUrl],
          [type |-> "audio/mp4", bitrate |-> 32, url |-> Undefined]}
InvidiousAnswers ==
    {[kind |-> k, adaptiveFormats |-> <<>>] : k \in {"fetch_rejects", "not_ok", "json_rejects", "no_formats"}}
    \cup {[kind |-> "ok", adaptiveFormats |-> f] : f \in Lists(AdaptiveFormats, MaxFormats)}

(***************************************************************************)
(* Settings (instanceService)                                              *)
(***************************************************************************)
\* A setting changes while a call may still read it
SetSearchProvider ==
    /\ pc # "done"
    /\ \E p \in Providers \ {searchProvider} : searchProvider' = p
    /\ UNCHANGED <<audioQuality, resolveVars, matchVars, proxyVars, textVars, scrapeVars>>

SetAudioQuality ==
    /\ pc # "done"
    /\ scrapePc # "done"
    /\ \E q \in Qualities \ {audioQuality} : audioQuality' = q
    /\ UNCHANGED <<searchProvider, resolveVars, matchVars, proxyVars, textVars, scrapeVars>>

(***************************************************************************)
(* getAudioUrlForTrack  (youtubeService.js:7-15)                           *)
(***************************************************************************)
\* youtubeService.js:32 and :132
hasDirectUrl_Never(t) == FALSE

hasDirectUrl(t) == truthy(t.url)

\* youtubeService.js:138
needsSearch(id) == id = Undefined \/ id.length # 11

\* The call, up to its first outbound request
GetAudioUrlForTrack ==
    /\ pc = "idle"
    /\ \E t \in Tracks :
        /\ track' = t
        /\ provider' = searchProvider
        /\ qualityAtCall' = audioQuality
        /\ IF hasDirectUrl(t)
           THEN /\ outcome' = Returned(t.url)
                /\ pc' = "done"
                /\ UNCHANGED videoId
           ELSE /\ UNCHANGED outcome
                /\ IF searchProvider = "jiosaavn"
                   THEN pc' = "strict" /\ UNCHANGED videoId
                   ELSE /\ videoId' = t.id
                        /\ pc' = IF needsSearch(t.id) THEN "search" ELSE "stream"
    /\ UNCHANGED <<results, calls, found, settingVars, matchVars, proxyVars, textVars, scrapeVars>>

(***************************************************************************)
(* getJioSaavnAudioUrl  (youtubeService.js:30-72)                          *)
(***************************************************************************)
\* youtubeService.js:38
artistNameOf(t) ==
    IF t.artists # Undefined /\ t.artists.items # <<>> THEN t.artists.items[1].name ELSE <<>>

\* youtubeService.js:40
strictQuery(t) == trim(template(orElse(t.name, t.title)) \o <<" ">> \o artistNameOf(t))

\* youtubeService.js:54
retryQuery(t) == trim(template(orElse(orElse(t.name, t.title), Str(<<>>))))

\* youtubeService.js:36-47, attempt 1
StrictSearch ==
    /\ pc = "strict"
    /\ IF strictQuery(track) # <<>>
       THEN \E answer \in JioSaavnAnswers :
               /\ results' = searchJioSaavn(answer)
               /\ calls' = Append(calls, [api |-> "jiosaavn", query |-> strictQuery(track),
                                          answer |-> answer.kind, body |-> answer.results])
       ELSE UNCHANGED <<results, calls>>
    /\ pc' = "retry"
    /\ UNCHANGED <<track, provider, qualityAtCall, videoId, outcome, found, settingVars, matchVars, proxyVars, textVars, scrapeVars>>

noResults_Always(r) == TRUE

\* youtubeService.js:51 and :65  !results || results.length === 0
noResults(r) == r = <<>>

\* youtubeService.js:49-71, attempt 2 and the final check
LooseSearch ==
    /\ pc = "retry"
    /\ IF noResults(results) /\ retryQuery(track) # <<>>
       THEN \E answer \in JioSaavnAnswers :
               /\ results' = searchJioSaavn(answer)
               /\ calls' = Append(calls, [api |-> "jiosaavn", query |-> retryQuery(track),
                                          answer |-> answer.kind, body |-> answer.results])
       ELSE UNCHANGED <<results, calls>>
    /\ outcome' = IF noResults(results')
                  THEN Thrown("Track not found on JioSaavn")
                  ELSE Returned(results'[1].url)
    /\ pc' = "done"
    /\ UNCHANGED <<track, provider, qualityAtCall, videoId, found, settingVars, matchVars, proxyVars, textVars, scrapeVars>>

(***************************************************************************)
(* getYouTubeAudioUrl  (youtubeService.js:129-158)                         *)
(***************************************************************************)
\* youtubeService.js:139-140
youTubeQuery(t) ==
    template(orElse(t.name, t.title)) \o <<" ">>
        \o (IF t.artists # Undefined
            THEN joinSpace([i \in 1..Len(t.artists.items) |-> t.artists.items[i].name])
            ELSE <<>>)

\* youtubeService.js:138-149
VideoSearch ==
    /\ pc = "search"
    /\ \E answer \in PipedAnswers :
        LET searchResults == searchYouTube(answer)
        IN /\ calls' = Append(calls, [api |-> "piped", query |-> youTubeQuery(track),
                                      answer |-> answer.kind, body |-> answer.results])
           /\ IF searchResults.type = "error"
              THEN outcome' = searchResults /\ pc' = "done" /\ UNCHANGED videoId
              ELSE IF searchResults.value = <<>>
              THEN /\ outcome' = Thrown("No matching videos found on YouTube")
                   /\ pc' = "done"
                   /\ UNCHANGED videoId
              ELSE /\ videoId' = searchResults.value[1].id
                   /\ pc' = "stream"
                   /\ UNCHANGED outcome
    /\ UNCHANGED <<track, provider, qualityAtCall, results, found, settingVars, matchVars, proxyVars, textVars, scrapeVars>>

\* youtubeService.js:151-157
StreamExtraction ==
    /\ pc = "stream"
    /\ \E answer \in InvidiousAnswers :
        /\ calls' = Append(calls, [api |-> "invidious", query |-> <<>>, answer |-> answer.kind,
                                   body |-> answer.adaptiveFormats])
        /\ outcome' = getStreamUrl(answer, audioQuality)
    /\ pc' = "done"
    /\ UNCHANGED <<track, provider, qualityAtCall, results, videoId, found, settingVars, matchVars, proxyVars, textVars, scrapeVars>>

(***************************************************************************)
(* smartSearch  (youtubeService.js:18-26)                                  *)
(***************************************************************************)
SmartSearch ==
    /\ pc = "idle"
    /\ IF searchProvider = "jiosaavn"
       THEN \E answer \in JioSaavnAnswers :
               /\ found' = Returned(searchJioSaavn(answer))
               /\ calls' = Append(calls, [api |-> "jiosaavn", query |-> <<"a">>,
                                          answer |-> answer.kind, body |-> answer.results])
       ELSE \E answer \in PipedAnswers :
               /\ found' = searchYouTube(answer)
               /\ calls' = Append(calls, [api |-> "piped", query |-> <<"a">>,
                                          answer |-> answer.kind, body |-> answer.results])
    /\ pc' = "done"
    /\ UNCHANGED <<track, provider, qualityAtCall, results, videoId, outcome, settingVars, matchVars, proxyVars, textVars,
                   scrapeVars>>

(***************************************************************************)
(* GET /scrape  (server.cjs:169-213)                                       *)
(***************************************************************************)
\* server.cjs:188 and :208  encodeURIComponent(u) behind the proxy prefix
encodeURIComponent(url) == [type |-> "encoded", of |-> url]
decodeURIComponent(enc) == enc.of
proxiedUrl(url) ==
    [type |-> "proxied", prefix |-> "http://localhost:3001/proxy?url=",
     url |-> encodeURIComponent(url)]

Json(status, body) == [status |-> status, body |-> body]

invidiousStep_AlwaysFallsThrough(answer) == Undefined

\* server.cjs:176-193: the response of the Invidious step, or Undefined when
\* the step falls through (or throws into its catch block) to yt-dlp
invidiousStep(answer) ==
    IF answer.kind # "ok" THEN Undefined
    ELSE LET audioStreams == sortByBitrate(SelectSeq(answer.adaptiveFormats, isAudio))
             bestAudio == audioStreams[1]
         IN IF audioStreams = <<>> THEN Undefined
            ELSE IF ~truthy(bestAudio.url) THEN Undefined
            ELSE IF bestAudio.url.type # "url" THEN Undefined
            ELSE Json(200, [url |-> proxiedUrl(withHostname(bestAudio.url, STREAM_API_HOST))])

\* String.prototype.trim on the standard output of yt-dlp
trimOutput(stdout) == stdout.url

\* server.cjs:199-212
ytdlpStep(answer) ==
    IF answer.kind = "rejects" THEN Json(500, [error |-> "Failed to scrape"])
    ELSE Json(200, [url |-> proxiedUrl(trimOutput(answer.stdout))])

YtDlpAnswers ==
    {[kind |-> "rejects", stdout |-> Undefined],
     [kind |-> "ok", stdout |-> [url |-> Url("rr5.googlevideo.com", 7), newline |-> TRUE]]}

\* server.cjs:170-175: the request arrives; the Invidious API is asked
ScrapeRequest ==
    /\ scrapePc = "idle"
    /\ \E id \in {Undefined, Id("trackvideo", 11)} :
        IF id = Undefined
        THEN /\ responses' = Append(responses, Json(400, [error |-> "Missing videoId"]))
             /\ scrapePc' = "done"
             /\ UNCHANGED scrapeCalls
        ELSE /\ scrapeCalls' = Append(scrapeCalls, "invidious")
             /\ scrapePc' = "invidious"
             /\ UNCHANGED responses
    /\ UNCHANGED <<invidiousAnswer, settingVars, resolveVars, matchVars, proxyVars, textVars>>

\* server.cjs:175-201: the Invidious answer arrives; either the response is
\* sent or yt-dlp is started
ScrapeInvidious ==
    /\ scrapePc = "invidious"
    /\ \E answer \in InvidiousAnswers :
        /\ invidiousAnswer' = answer
        /\ IF invidiousStep(answer) # Undefined
           THEN /\ responses' = Append(responses, invidiousStep(answer))
                /\ scrapePc' = "done"
                /\ UNCHANGED scrapeCalls
           ELSE /\ scrapeCalls' = Append(scrapeCalls, "yt-dlp")
                /\ scrapePc' = "yt-dlp"
                /\ UNCHANGED responses
    /\ UNCHANGED <<settingVars, resolveVars, matchVars, proxyVars, textVars>>

\* server.cjs:201-212: yt-dlp ends
ScrapeYtDlp ==
    /\ scrapePc = "yt-dlp"
    /\ \E answer \in YtDlpAnswers :
        responses' = Append(responses, ytdlpStep(answer))
    /\ scrapePc' = "done"
    /\ UNCHANGED <<scrapeCalls, invidiousAnswer, settingVars, resolveVars, matchVars, proxyVars, textVars>>

(***************************************************************************)
(* GET /proxy  (server.cjs:215-245)                                        *)
(* A URL, a header value and a body are sequences of tokens: a token is a  *)
(* run of characters the handler never looks inside.                       *)
(***************************************************************************)
MaxLines == 2     \* longest manifest, in lines
MaxChunks == 2    \* most chunks of a streamed body that are relayed

Scheme == "https://"
ManifestWhiteSpace == {" ", "\n"}
MediaUrls == {<<Scheme, "h", "/", "s">>, <<Scheme, "h">>}
TargetUrls == {<<>>, <<Scheme, "h", "/", "s", ".m3u8">>, <<Scheme, "h", "/", "s", ".ts">>}
RangeHeaders == {<<>>, <<"bytes=0-99">>}

\* The lines of an HLS manifest: a tag, a bare URI, an attribute list that
\* holds a quoted URI
PlaylistLines ==
    {[kind |-> "tag", url |-> <<>>]}
    \cup {[kind |-> "uri", url |-> u] : u \in MediaUrls}
    \cup {[kind |-> "attribute", url |-> <<Scheme, "h", "/", "s">>]}
Playlists == UNION {[1..k -> PlaylistLines] : k \in 0..MaxLines}

lineText(line) ==
    IF line.kind = "tag" THEN <<"#EXTM3U">>
    ELSE IF line.kind = "uri" THEN line.url
    ELSE <<"#EXT-X-MEDIA:URI=", "\"">> \o line.url \o <<"\"", ",", "NAME=a">>

\* server.cjs:234  response.text()
RECURSIVE playlistText(_)
playlistText(lines) ==
    IF lines = <<>> THEN <<>>
    ELSE lineText(Head(lines)) \o <<"\n">> \o playlistText(Tail(lines))

\* server.cjs:236  encodeURIComponent, token by token
encodeToken(c) ==
    CASE c = Scheme -> "https%3A%2F%2F"
      [] c = "/" -> "%2F"
      [] c = "\"" -> "%22"
      [] c = "," -> "%2C"
      [] c = "NAME=a" -> "NAME%3Da"
      [] c = "#EXT-X-MEDIA:URI=" -> "%23EXT-X-MEDIA%3AURI%3D"
      [] c = "#EXTM3U" -> "%23EXTM3U"
      [] OTHER -> c
percentEncode(text) == [i \in 1..Len(text) |-> encodeToken(text[i])]

\* decodeURIComponent, as the handler applies it to req.query.url
decodeToken(c) ==
    CASE c = "https%3A%2F%2F" -> Scheme
      [] c = "%2F" -> "/"
      [] c = "%22" -> "\""
      [] c = "%2C" -> ","
      [] c = "NAME%3Da" -> "NAME=a"
      [] c = "%23EXT-X-MEDIA%3AURI%3D" -> "#EXT-X-MEDIA:URI="
      [] c = "%23EXTM3U" -> "#EXTM3U"
      [] OTHER -> c
percentDecode(text) == [i \in 1..Len(text) |-> decodeToken(text[i])]

\* server.cjs:236  [^\s]+ : the longest run without white space
RECURSIVE nonSpaceRun(_)
nonSpaceRun(text) ==
    IF text = <<>> \/ Head(text) \in ManifestWhiteSpace THEN <<>>
    ELSE <<Head(text)>> \o nonSpaceRun(Tail(text))

\* server.cjs:235
baseProxyUrl == "http://localhost:3001/proxy?url="

\* server.cjs:236  playlistText.replace(/(https?:\/\/[^\s]+)/g, ...)
RECURSIVE replaceUrls(_)
replaceUrls(text) ==
    IF text = <<>> THEN <<>>
    ELSE IF Head(text) = Scheme /\ nonSpaceRun(Tail(text)) # <<>>
    THEN LET match == <<Scheme>> \o nonSpaceRun(Tail(text))
         IN <<baseProxyUrl>> \o percentEncode(match)
                \o replaceUrls(SubSeq(text, Len(match) + 1, Len(text)))
    ELSE <<Head(text)>> \o replaceUrls(Tail(text))

\* server.cjs:11-16  cors({origin: 'http://localhost:8080', ...}) sets the
\* header on every response before the handler runs
corsOrigin == "http://localhost:8080"

\* The response object as the handler receives it
NewResponse ==
    [statusCode |-> 200, allowOrigin |-> corsOrigin, contentType |-> <<>>,
     contentLength |-> <<>>, contentRange |-> <<>>, headersSent |-> FALSE,
     sentStatus |-> 0, body |-> <<>>, ended |-> FALSE]

\* express: res.status(code)
status(r, code) == [r EXCEPT !.statusCode = code]

\* http: the status line and the headers go out with the first write
writeHead(r) == IF r.headersSent THEN r
                ELSE [r EXCEPT !.headersSent = TRUE, !.sentStatus = r.statusCode]

\* express: res.send(text) sets Content-Length from the text it sends
send(r, text) ==
    [writeHead(r) EXCEPT !.contentLength = <<"length of the body">>, !.body = text,
                         !.ended = TRUE]

\* http: res.end()
end(r) == [writeHead(r) EXCEPT !.ended = TRUE]

\* stream: a chunk piped into res
write(r, chunk) == [writeHead(r) EXCEPT !.body = Append(r.body, chunk)]

\* node-fetch: response.ok
ok(response) == response.status \in 200..299

\* server.cjs:225
DefaultContentType == <<"application/", "vnd.apple.", "mpegurl">>
effectiveContentType(response) ==
    IF response.contentType # <<>> THEN response.contentType ELSE DefaultContentType

\* String.prototype.includes and String.prototype.endsWith, on tokens
includes(text, token) == \E i \in 1..Len(text) : text[i] = token
endsWith(text, token) == text # <<>> /\ text[Len(text)] = token

isManifest_ContentTypeOnly(contentType, url) == includes(contentType, "mpegurl")

\* server.cjs:233
isManifest(contentType, url) == includes(contentType, "mpegurl") \/ endsWith(url, ".m3u8")

\* What the outbound fetch can give
UpstreamStatuses == {200, 206, 404, 416}
statusText(code) ==
    CASE code = 200 -> "OK"
      [] code = 206 -> "Partial Content"
      [] code = 404 -> "Not Found"
      [] code = 416 -> "Range Not Satisfiable"
ContentTypes == {<<>>, <<"audio/", "mp4">>, <<"application/", "x-", "mpegurl">>,
                 <<"application/", "x-", "mpegURL">>}
UpstreamResponses ==
    {[kind |-> "rejects", status |-> 0, statusText |-> "", contentType |-> <<>>,
      contentLength |-> <<>>, contentRange |-> <<>>]}
    \cup {[kind |-> "response", status |-> s, statusText |-> statusText(s),
           contentType |-> t, contentLength |-> l, contentRange |-> r] :
            s \in UpstreamStatuses, t \in ContentTypes, l \in {<<>>, <<"100">>},
            r \in {<<>>, <<"bytes 0-99/1000">>}}

\* server.cjs:216-221: the request arrives; the outbound fetch is issued
ProxyRequest ==
    /\ proxyPc = "idle"
    /\ \E url \in TargetUrls, range \in RangeHeaders :
        /\ request' = [url |-> url, range |-> range]
        /\ IF url = <<>>
           THEN /\ res' = send(status(res, 400), <<"Missing url">>)
                /\ proxyPc' = "done"
                /\ UNCHANGED fetches
           ELSE /\ fetches' = Append(fetches, [url |-> url, method |-> "GET", Range |-> range])
                /\ proxyPc' = "fetching"
                /\ UNCHANGED res
    /\ UNCHANGED <<upstreamResponse, relay, playlist, bodyErrored, matchVars, settingVars, resolveVars,
                   scrapeVars, textVars>>

notOkResponse_Masked(r, response) == send(status(r, 500), <<"Proxy failed">>)

\* server.cjs:223
notOkResponse(r, response) == send(status(r, response.status), <<response.statusText>>)

relayHeaders_StatusKept(r, response, range) ==
    [r EXCEPT !.contentType = effectiveContentType(response), !.allowOrigin = "*",
              !.contentLength = response.contentLength,
              !.contentRange = response.contentRange]

\* server.cjs:225-231
relayHeaders(r, response, range) ==
    LET typed == [r EXCEPT !.contentType = effectiveContentType(response),
                           !.allowOrigin = "*"]
        sized == IF response.contentLength # <<>>
                 THEN [typed EXCEPT !.contentLength = response.contentLength] ELSE typed
        ranged == IF response.contentRange # <<>>
                  THEN [sized EXCEPT !.contentRange = response.contentRange] ELSE sized
    IN IF range # <<>> THEN status(ranged, 206) ELSE ranged

\* server.cjs:221-241: the outbound fetch settles; up to the read of the
\* manifest or to the pipe and its error listener
ProxyFetched ==
    /\ proxyPc = "fetching"
    /\ \E response \in UpstreamResponses :
        /\ upstreamResponse' = response
        /\ IF response.kind = "rejects"
           THEN /\ res' = send(status(res, 500), <<"Proxy failed">>)
                /\ proxyPc' = "done"
                /\ UNCHANGED relay
           ELSE IF ~ok(response)
           THEN /\ res' = notOkResponse(res, response)
                /\ proxyPc' = "done"
                /\ UNCHANGED relay
           ELSE /\ res' = relayHeaders(res, response, request.range)
                /\ relay' = IF isManifest(effectiveContentType(response), request.url)
                            THEN "manifest" ELSE "pipe"
                /\ proxyPc' = IF relay' = "manifest" THEN "reading" ELSE "piping"
    /\ UNCHANGED <<request, fetches, playlist, bodyErrored, matchVars, settingVars,
                   resolveVars, scrapeVars, textVars>>

\* server.cjs:234-237 and :242-244: response.text() settles
ProxyManifest ==
    /\ proxyPc = "reading"
    /\ \/ /\ bodyErrored' = TRUE
          /\ res' = send(status(res, 500), <<"Proxy failed">>)
          /\ UNCHANGED playlist
       \/ \E lines \in Playlists :
            /\ playlist' = lines
            /\ res' = send(res, replaceUrls(playlistText(lines)))
            /\ UNCHANGED bodyErrored
    /\ proxyPc' = "done"
    /\ UNCHANGED <<request, fetches, upstreamResponse, relay, matchVars, settingVars, resolveVars,
                   scrapeVars, textVars>>

\* server.cjs:239: a chunk of the upstream body is piped
ProxyPipeData ==
    /\ proxyPc = "piping"
    /\ Len(res.body) < MaxChunks
    /\ res' = write(res, "chunk")
    /\ UNCHANGED <<proxyPc, request, fetches, upstreamResponse, relay, playlist, bodyErrored, matchVars,
                   settingVars, resolveVars, scrapeVars, textVars>>

\* server.cjs:239: the upstream body ends; pipe ends the response
ProxyPipeEnd ==
    /\ proxyPc = "piping"
    /\ res' = end(res)
    /\ proxyPc' = "done"
    /\ UNCHANGED <<request, fetches, upstreamResponse, relay, playlist, bodyErrored, matchVars,
                   settingVars, resolveVars, scrapeVars, textVars>>

onBodyError_StatusOnly(r) == status(r, 500)

\* server.cjs:240  () => res.status(500).end()
onBodyError(r) == end(status(r, 500))

\* server.cjs:240: the upstream body emits 'error'; the listener runs in the
\* same turn
ProxyPipeError ==
    /\ proxyPc = "piping"
    /\ bodyErrored' = TRUE
    /\ res' = onBodyError(res)
    /\ proxyPc' = "done"
    /\ UNCHANGED <<request, fetches, upstreamResponse, relay, playlist, matchVars, settingVars,
                   resolveVars, scrapeVars, textVars>>

(***************************************************************************)
(* normalize and startsEither on their own  (server.cjs:119-129)           *)
(***************************************************************************)
MaxTextLen == 3   \* longest string handed to normalize, in characters

TheWeeknd == <<"t", "h", "e", " ", "w", "e", "e", "k", "n", "d">>
Weeknd == <<"w", "e", "e", "k", "n", "d">>
Abc == <<"a", "b", "c">>
Xyz == <<"x", "y", "z">>
TextInputs == Texts(MaxTextLen) \cup {TheWeeknd, Weeknd, Abc, Xyz}

namesOverlap_Equal(a, b) == normalize(a) = normalize(b)

\* server.cjs:128-129  startsEither(normalize(a), normalize(b))
namesOverlap(a, b) == startsEither(normalize(a), normalize(b))

\* server.cjs:119
Normalize ==
    /\ normalized = Pending
    /\ normalized' = Returned(normalize(textA))
    /\ UNCHANGED <<textA, textB, overlaps, matchVars, settingVars, resolveVars, scrapeVars,
                   proxyVars>>

\* server.cjs:128-129
NamesOverlap ==
    /\ overlaps = Pending
    /\ overlaps' = Returned(namesOverlap(textA, textB))
    /\ UNCHANGED <<textA, textB, normalized, matchVars, settingVars, resolveVars,
                   scrapeVars, proxyVars>>

(***************************************************************************)
(* Specifications                                                          *)
(***************************************************************************)
MatchIdle ==
    /\ title = <<>>
    /\ artist = <<>>
    /\ rawResults = <<>>
    /\ matchingTrack = Pending
    /\ searchOutcome = Pending

ResolveInit ==
    /\ pc = "idle"
    /\ track = Undefined
    /\ provider = "unset"
    /\ results = <<>>
    /\ videoId = Undefined
    /\ calls = <<>>
    /\ outcome = Pending
    /\ found = Pending
    /\ qualityAtCall = "unset"

ScrapeInit ==
    /\ scrapePc = "idle"
    /\ scrapeCalls = <<>>
    /\ invidiousAnswer = Pending
    /\ responses = <<>>

SettingsInit ==
    /\ searchProvider \in Providers
    /\ audioQuality \in Qualities

ProxyIdle ==
    /\ proxyPc = "idle"
    /\ request = [url |-> <<>>, range |-> <<>>]
    /\ fetches = <<>>
    /\ upstreamResponse = Pending
    /\ relay = "none"
    /\ playlist = <<>>
    /\ res = NewResponse
    /\ bodyErrored = FALSE

TextIdle ==
    /\ textA = <<>>
    /\ textB = <<>>
    /\ normalized = Pending
    /\ overlaps = Pending

Init == MatchIdle /\ SettingsInit /\ ResolveInit /\ ScrapeInit /\ ProxyIdle /\ TextIdle

\* The resolver of youtubeService.js, its settings changing under it
Next ==
    \/ SetSearchProvider
    \/ SetAudioQuality
    \/ GetAudioUrlForTrack
    \/ StrictSearch
    \/ LooseSearch
    \/ VideoSearch
    \/ StreamExtraction
    \/ SmartSearch

Spec == Init /\ [][Next]_vars

\* JioSaavn.search, JioSaavn.searchAll and _findMatchingTrack of server.cjs
MatchInit ==
    /\ title \in Texts(MaxLen)
    /\ artist \in ArtistQueries
    /\ rawResults \in RawResultLists
    /\ matchingTrack = Pending
    /\ searchOutcome = Pending
    /\ searchProvider = "jiosaavn"
    /\ audioQuality = "high"
    /\ ResolveInit
    /\ ScrapeInit
    /\ ProxyIdle
    /\ TextIdle

MatchNext ==
    \/ FindMatchingTrack
    \/ Search
    \/ SearchAll

SpecMatch == MatchInit /\ [][MatchNext]_vars

\* GET /scrape of server.cjs
ScrapeNext ==
    \/ ScrapeRequest
    \/ ScrapeInvidious
    \/ ScrapeYtDlp
    \/ SetAudioQuality

SpecScrape == Init /\ [][ScrapeNext]_vars

\* GET /proxy of server.cjs
ProxyNext ==
    \/ ProxyRequest
    \/ ProxyFetched
    \/ ProxyManifest
    \/ ProxyPipeData
    \/ ProxyPipeEnd
    \/ ProxyPipeError

SpecProxy == Init /\ [][ProxyNext]_vars

\* normalize and startsEither of server.cjs, applied to strings
TextInit ==
    /\ textA \in TextInputs
    /\ textB \in TextInputs
    /\ normalized = Pending
    /\ overlaps = Pending
    /\ MatchIdle
    /\ searchProvider = "jiosaavn"
    /\ audioQuality = "high"
    /\ ResolveInit
    /\ ScrapeInit
    /\ ProxyIdle

TextNext ==
    \/ Normalize
    \/ NamesOverlap

SpecText == TextInit /\ [][TextNext]_vars

(***************************************************************************)
(* Properties of _findMatchingTrack, checked under SpecMatch               *)
(***************************************************************************)
IsPrefix(p, s) == \E k \in 0..Len(s) : p = SubSeq(s, 1, k)
Overlap(a, b) ==
    IsPrefix(normalize(a), normalize(b)) \/ IsPrefix(normalize(b), normalize(a))
Least(S) == CHOOSE m \in S : \A n \in S : m <= n

Candidates == processed(rawResults)
CandidateArtists(i) == Candidates[i].artists.primary \o Candidates[i].artists.all
TitleOverlaps == {i \in 1..Len(Candidates) : Overlap(Candidates[i].name, title)}
FullMatches ==
    {i \in TitleOverlaps :
        artist = <<>>
        \/ \E j \in 1..Len(CandidateArtists(i)) : Overlap(CandidateArtists(i)[j].name, artist)}

\* C1: whenever some candidate's title overlaps the title query and the
\* artist query is empty or overlaps one of that candidate's primary+all
\* artist names, _findMatchingTrack returns the first such candidate in the
\* order the provider returned them; an empty artist query never excludes a
\* candidate.
C1_FirstFullMatchIsReturned ==
    (matchingTrack # Pending /\ FullMatches # {})
        => matchingTrack = Candidates[Least(FullMatches)]

C1_Witness ==
    /\ matchingTrack # Pending
    /\ artist # <<>>
    /\ 1 \in TitleOverlaps
    /\ FullMatches # {}
    /\ Least(FullMatches) = 2
    /\ matchingTrack = Candidates[2]

\* C2: with no candidate matching on title and artist, the result is the
\* first candidate whose title overlaps; with no title overlapping, the
\* first candidate; the result is undefined exactly when the list is empty,
\* and every other result is an element of the list.
C2_TwoTierFallback ==
    matchingTrack # Pending =>
        /\ (FullMatches = {} /\ TitleOverlaps # {})
              => matchingTrack = Candidates[Least(TitleOverlaps)]
        /\ (TitleOverlaps = {} /\ Candidates # <<>>) => matchingTrack = Candidates[1]
        /\ (matchingTrack = Undefined) <=> (Candidates = <<>>)
        /\ matchingTrack # Undefined
              => \E i \in 1..Len(Candidates) : matchingTrack = Candidates[i]

C2_Witness ==
    /\ matchingTrack # Pending
    /\ FullMatches = {}
    /\ TitleOverlaps # {}
    /\ Least(TitleOverlaps) = 2
    /\ matchingTrack = Candidates[2]

(***************************************************************************)
(* Properties of the resolver, checked under Spec                          *)
(***************************************************************************)
SearchCalls == SelectSeq(calls, LAMBDA c : c.api \in {"jiosaavn", "piped"})
NotFoundErrors == {Thrown("Track not found on JioSaavn"),
                   Thrown("No matching videos found on YouTube")}
FailedAnswers == {"fetch_rejects", "not_ok", "json_rejects"}
RawFailures == {"fetch failed", "invalid json", "Search API error", "Stream API error"}

\* C3: the not-found error reaches the caller only after two search
\* attempts were issued, the strict (title + artist) one and then the
\* loosened (title only) one, and both gave no result.
C3_NotFoundOnlyAfterBothAttempts ==
    outcome \in NotFoundErrors =>
        /\ Len(SearchCalls) = 2
        /\ SearchCalls[1].query = strictQuery(track)
        /\ SearchCalls[2].query = retryQuery(track)
        /\ \A i \in 1..2 : SearchCalls[i].answer # "ok" \/ SearchCalls[i].body = <<>>

\* C4: the failure of a single provider call (a rejected fetch, a
\* non-success answer, a body that does not parse) is never what the caller
\* of getAudioUrlForTrack receives.
C4_ProviderFailureNeverPropagated ==
    \A i \in 1..Len(calls) :
        calls[i].answer \in FailedAnswers
            => ~(outcome.type = "error" /\ outcome.message \in RawFailures)

\* C5: a search operation returns an empty sequence, and does not throw,
\* when the upstream answers with a non-success response or with an empty
\* result list.
C5_SearchReturnsEmptyOnNoResult ==
    (found # Pending
     /\ (calls[1].answer \in {"not_ok", "no_items"}
         \/ (calls[1].answer = "ok" /\ calls[1].body = <<>>)))
        => found = Returned(<<>>)

\* C6: a track that carries a direct URL is answered with exactly that URL
\* and without any outbound request, whichever provider is active.
C6_DirectUrlShortCircuits ==
    (track # Undefined /\ track.url # Undefined)
        => /\ pc = "done"
           /\ outcome = Returned(track.url)
           /\ calls = <<>>

C6_Witness ==
    /\ pc = "done"
    /\ track # Undefined
    /\ track.url # Undefined
    /\ provider = "youtube"
    /\ outcome = Returned(track.url)

\* C10: a successful call for a track without a direct URL returns a
\* proxied URL (/proxy?url=<encoded upstream URL>), never the upstream URL
\* itself and never an absent URL.
C10_ResolvedUrlIsProxied ==
    (pc = "done" /\ outcome.type = "return" /\ track # Undefined /\ track.url = Undefined)
        => outcome.value.type = "proxied"

(***************************************************************************)
(* Properties of the extraction paths                                      *)
(***************************************************************************)
AudioAt(formats) == {i \in 1..Len(formats) : formats[i].type \in AudioTypes}

\* The bitrate at position k (from 0) of the audio formats in descending
\* order of bitrate
BitrateAt(formats, k) ==
    CHOOSE b \in {formats[i].bitrate : i \in AudioAt(formats)} :
        /\ Cardinality({i \in AudioAt(formats) : formats[i].bitrate > b}) <= k
        /\ k < Cardinality({i \in AudioAt(formats) : formats[i].bitrate >= b})

PreferredPosition(n, quality) ==
    IF quality = "high" THEN 0 ELSE IF quality = "low" THEN n - 1 ELSE n \div 2

PreferredBitrate(formats, quality) ==
    BitrateAt(formats, PreferredPosition(Cardinality(AudioAt(formats)), quality))

\* C7: whenever an extraction resolves a stream, in getStreamUrl and in
\* /scrape alike, the variant it takes from the audio formats in descending
\* order of bitrate is the one the configured quality asks for: position 0
\* for high, n-1 for low, floor(n/2) for medium.
C7_PreferenceAppliedOnEveryPath ==
    [][/\ (pc = "stream" /\ outcome'.type = "return")
            => outcome'.value.path
                  = PreferredBitrate(calls'[Len(calls')].body, audioQuality)
       /\ (scrapePc = "invidious" /\ Len(responses') = 1)
            => decodeURIComponent(responses'[1].body.url.url).path
                  = PreferredBitrate(invidiousAnswer'.adaptiveFormats, audioQuality)]_vars

\* The highest-bitrate audio format of the answer carries a URL that parses
PrimaryUsable(answer) ==
    /\ answer.kind = "ok"
    /\ AudioAt(answer.adaptiveFormats) # {}
    /\ LET top == {i \in AudioAt(answer.adaptiveFormats) :
                     \A j \in AudioAt(answer.adaptiveFormats) :
                        answer.adaptiveFormats[j].bitrate <= answer.adaptiveFormats[i].bitrate}
       IN answer.adaptiveFormats[Least(top)].url.type = "url"

\* C8: yt-dlp is invoked only after the Invidious API was tried and was
\* unreachable, answered non-success or gave no usable audio format (none,
\* or the one it picks carries no URL that parses); it is never invoked once
\* Invidious gave a usable audio URL; and a request gets exactly one
\* response.
C8_YtDlpOnlyAfterInvidiousFailed ==
    /\ (\E i \in 1..Len(scrapeCalls) : scrapeCalls[i] = "yt-dlp")
          => /\ scrapeCalls = <<"invidious", "yt-dlp">>
             /\ invidiousAnswer # Pending
             /\ ~PrimaryUsable(invidiousAnswer)
    /\ (invidiousAnswer # Pending /\ PrimaryUsable(invidiousAnswer))
          => /\ scrapeCalls = <<"invidious">>
             /\ scrapePc = "done"
             /\ Len(responses) = 1
             /\ responses[1].status = 200
    /\ Len(responses) <= 1
    /\ (scrapePc = "done") <=> (Len(responses) = 1)

C8_Witness ==
    /\ scrapePc = "done"
    /\ scrapeCalls = <<"invidious", "yt-dlp">>
    /\ invidiousAnswer.kind = "ok"
    /\ AudioAt(invidiousAnswer.adaptiveFormats) # {}
    /\ Len(responses) = 1
    /\ responses[1].status = 200

\* C9: every URL a successful stream resolution hands back, by getStreamUrl
\* or inside the proxied URL of /scrape on either of its paths, has the
\* public streaming host as its hostname.
C9_HostnameAlwaysReplaced ==
    /\ (outcome.type = "return" /\ calls # <<>> /\ calls[Len(calls)].api = "invidious")
          => outcome.value.host = STREAM_API_HOST
    /\ \A i \in 1..Len(responses) :
          responses[i].status = 200
             => decodeURIComponent(responses[i].body.url.url).host = STREAM_API_HOST

(***************************************************************************)
(* Properties of GET /proxy, checked under SpecProxy                       *)
(***************************************************************************)
RangeRequested == request.range # <<>>
UpstreamAnswered == upstreamResponse # Pending /\ upstreamResponse.kind = "response"
UpstreamSucceeded == UpstreamAnswered /\ upstreamResponse.status \in 200..299
UpstreamRefused == UpstreamAnswered /\ upstreamResponse.status \notin 200..299
RangeForwarded ==
    /\ Len(fetches) = 1
    /\ fetches[1].Range = request.range
    /\ fetches[1].url = request.url
ContentRangeRelayed ==
    (/\ RangeRequested
     /\ UpstreamAnswered
     /\ upstreamResponse.status = 206
     /\ upstreamResponse.contentRange # <<>>
     /\ ~bodyErrored)
        => /\ RangeForwarded
           /\ res.sentStatus = 206
           /\ res.contentRange = upstreamResponse.contentRange

\* C11 as stated: once the response to a request with a Range header is
\* sent, its status is 206 whatever status the upstream gave; and when the
\* upstream gave 206 with a Content-Range, the outbound request carried the
\* same Range and the response carries the same Content-Range.
C11_RangeAlwaysGives206 ==
    res.headersSent =>
        /\ (RangeRequested /\ UpstreamAnswered) => res.sentStatus = 206
        /\ ContentRangeRelayed

\* C11, amended: once the response to a request with a Range header is sent
\* after the upstream gave a success status and its body was relayed without
\* a transport error, the status is 206 whichever success status the upstream
\* gave; and when the upstream gave 206 with a Content-Range, the outbound
\* request carried the same Range and the response carries the same
\* Content-Range.
C11_RangeGives206OnSuccess ==
    res.headersSent =>
        /\ (RangeRequested /\ UpstreamSucceeded /\ ~bodyErrored) => res.sentStatus = 206
        /\ ContentRangeRelayed

\* A Range request the upstream answered with 200 and that was sent as 206
C11_Witness ==
    /\ res.ended
    /\ RangeRequested
    /\ UpstreamAnswered
    /\ upstreamResponse.status = 200
    /\ res.sentStatus = 206

\* C12: when the upstream answers with a non-success status, the response to
\* the caller carries exactly that status and its reason text, one outbound
\* fetch was issued and no other, and nothing of the upstream body is relayed.
C12_NonSuccessPassedOn ==
    UpstreamRefused =>
        /\ res.ended
        /\ res.sentStatus = upstreamResponse.status
        /\ res.body = <<upstreamResponse.statusText>>
        /\ Len(fetches) = 1
        /\ relay = "none"
        /\ proxyPc = "done"

\* A Range request the upstream refused with 404
C12_Witness ==
    /\ UpstreamRefused
    /\ RangeRequested
    /\ upstreamResponse.status = 404
    /\ res.sentStatus = 404
    /\ res.body = <<"Not Found">>

\* C13: every response the /proxy endpoint sends, on whichever path, carries
\* Access-Control-Allow-Origin: *.
C13_AlwaysPermissiveOrigin == res.headersSent => res.allowOrigin = "*"

ProxiedReference(u) == <<baseProxyUrl>> \o percentEncode(u)
RewrittenLine(line) ==
    IF line.kind = "tag" THEN lineText(line)
    ELSE IF line.kind = "uri" THEN ProxiedReference(line.url)
    ELSE <<"#EXT-X-MEDIA:URI=", "\"">> \o ProxiedReference(line.url) \o <<"\"", ",", "NAME=a">>
RECURSIVE RewrittenPlaylist(_)
RewrittenPlaylist(lines) ==
    IF lines = <<>> THEN <<>>
    ELSE RewrittenLine(Head(lines)) \o <<"\n">> \o RewrittenPlaylist(Tail(lines))
ManifestSent == relay = "manifest" /\ proxyPc = "done" /\ ~bodyErrored

\* C14: the manifest sent is the upstream manifest with each absolute URL U,
\* bare on a line or closed by a quote and a comma, replaced by the proxy
\* prefix followed by the percent-encoded U and with nothing else changed,
\* and percent-decoding that parameter gives back exactly U.
C14_EveryUrlRewrittenExactly ==
    ManifestSent =>
        /\ res.body = RewrittenPlaylist(playlist)
        /\ \A i \in 1..Len(playlist) :
              playlist[i].kind # "tag"
                  => percentDecode(percentEncode(playlist[i].url)) = playlist[i].url

(***************************************************************************)
(* Properties of normalize and startsEither, checked under SpecText        *)
(***************************************************************************)
\* C15: normalize applied to its own result gives that result again, for
\* every input string.
C15_NormalizeIdempotent ==
    normalized # Pending => normalize(normalized.value) = normalized.value

OnePrefixesTheOther ==
    IsPrefix(normalize(textA), normalize(textB)) \/ IsPrefix(normalize(textB), normalize(textA))

\* C16 as stated: namesOverlap(a, b) is true exactly when one normalized
\* string is a prefix of the other; namesOverlap("the weeknd", "weeknd") is
\* true and namesOverlap("abc", "xyz") is false.
C16_WeekndOverlaps ==
    overlaps # Pending =>
        /\ overlaps.value = OnePrefixesTheOther
        /\ (textA = TheWeeknd /\ textB = Weeknd) => overlaps.value = TRUE
        /\ (textA = Abc /\ textB = Xyz) => overlaps.value = FALSE

\* C16, amended: namesOverlap(a, b) is true exactly when one normalized
\* string is a prefix of the other; namesOverlap("the weeknd", "weeknd") is
\* false, "weeknd" being a suffix and not a prefix of "the weeknd", and
\* namesOverlap("abc", "xyz") is false.
C16_OverlapIsPrefixRelation ==
    overlaps # Pending =>
        /\ overlaps.value = OnePrefixesTheOther
        /\ (textA = TheWeeknd /\ textB = Weeknd) => overlaps.value = FALSE
        /\ (textA = Abc /\ textB = Xyz) => overlaps.value = FALSE

\* namesOverlap("the weeknd", "weeknd") has been evaluated
C16_Witness ==
    /\ overlaps = Returned(FALSE)
    /\ textA = TheWeeknd
    /\ textB = Weeknd

(***************************************************************************)
(* Properties of one resolution and its settings, checked under Spec       *)
(***************************************************************************)
JioSaavnResolution == provider = "jiosaavn" /\ track.url = Undefined
Produced(call) == IF call.answer = "ok" THEN call.body ELSE <<>>
StrictSkipped == strictQuery(track) = <<>>
StrictGaveNothing == StrictSkipped \/ (calls # <<>> /\ Produced(calls[1]) = <<>>)
LooseIssued == Len(calls) = (IF StrictSkipped THEN 1 ELSE 2)
TitleGiven == retryQuery(track) # <<>>

\* C17: in one JioSaavn resolution the strict query is issued first and the
\* title-only query second; the title-only query is issued exactly when the
\* strict attempt gave no result (empty, skipped or failed) and the title is
\* not empty; no more than two searches are issued; and what is returned is
\* the first item of the last attempt, which gave a non-empty list.
C17_StrictThenLoose ==
    JioSaavnResolution =>
        /\ Len(calls) <= 2
        /\ \A i \in 1..Len(calls) : calls[i].api = "jiosaavn"
        /\ (calls # <<>> /\ ~StrictSkipped) => calls[1].query = strictQuery(track)
        /\ pc \in {"strict", "retry"} => ~LooseIssued
        /\ pc = "strict" => calls = <<>>
        /\ pc = "done" =>
            /\ LooseIssued <=> (StrictGaveNothing /\ TitleGiven)
            /\ LooseIssued => calls[Len(calls)].query = retryQuery(track)
            /\ IF calls # <<>> /\ Produced(calls[Len(calls)]) # <<>>
               THEN outcome = Returned(Produced(calls[Len(calls)])[1].downloadUrl)
               ELSE outcome = Thrown("Track not found on JioSaavn")

\* The strict search failed, the title-only search was issued after it and
\* its first item was returned
C17_Witness ==
    /\ JioSaavnResolution
    /\ pc = "done"
    /\ Len(calls) = 2
    /\ calls[1].answer = "fetch_rejects"
    /\ calls[1].query # calls[2].query
    /\ outcome.type = "return"

LastCall == calls[Len(calls)]
PathFollowsCall ==
    /\ provider = "jiosaavn" => \A i \in 1..Len(calls) : calls[i].api = "jiosaavn"
    /\ provider = "youtube" => \A i \in 1..Len(calls) : calls[i].api \in {"piped", "invidious"}
VariantFollowsCall ==
    (pc = "done" /\ provider = "youtube" /\ calls # <<>> /\ LastCall.api = "invidious")
        => outcome = getStreamUrl([kind |-> LastCall.answer, adaptiveFormats |-> LastCall.body],
                                  qualityAtCall)

\* C19: no step of a resolution writes the provider or quality setting; a
\* resolution takes the provider and the quality in effect when it was
\* called; and a change of either setting made while the resolution waits
\* for an answer alters neither the provider path it follows nor the bitrate
\* variant it selects.
C19_IsolatedFromSettings ==
    [][/\ pc' # pc => (searchProvider' = searchProvider /\ audioQuality' = audioQuality)
       /\ (pc = "idle" /\ pc' # "idle" /\ found' = Pending)
             => (provider' = searchProvider /\ qualityAtCall' = audioQuality)
       /\ PathFollowsCall'
       /\ VariantFollowsCall']_vars

(***************************************************************************)
(* Properties of the two branches of GET /proxy, checked under SpecProxy   *)
(***************************************************************************)
PipeFailed == relay = "pipe" /\ bodyErrored
StatusBeforeError == IF RangeRequested THEN 206 ELSE 200

\* C18 as stated: after a transport error on the upstream body of a piped
\* response, whether or not headers were already sent, the response to the
\* caller is ended and its status is a server-error status.
C18_ErrorEndsWithServerError ==
    PipeFailed => (res.ended /\ res.sentStatus \in 500..599)

\* C18, amended: after a transport error on the upstream body of a piped
\* response the response to the caller is ended, never left open; its status
\* is 500 when nothing had been sent before the error, and the status already
\* sent (200, or 206 for a Range request) when a part of the body had gone out.
C18_ErrorEndsResponse ==
    PipeFailed =>
        /\ res.ended
        /\ proxyPc = "done"
        /\ res.body = <<>> => res.sentStatus = 500
        /\ res.body # <<>> => res.sentStatus = StatusBeforeError

\* The upstream body failed after a chunk had been relayed
C18_Witness ==
    /\ PipeFailed
    /\ res.body # <<>>
    /\ res.ended
    /\ res.sentStatus = 206

EffectiveType ==
    IF upstreamResponse.contentType = <<>>
    THEN <<"application/", "vnd.apple.", "mpegurl">>
    ELSE upstreamResponse.contentType
HoldsMpegurl == \E i \in 1..Len(EffectiveType) : EffectiveType[i] = "mpegurl"
EndsWithM3u8 == request.url[Len(request.url)] = ".m3u8"

\* C20: a successful upstream response is buffered and rewritten (manifest
\* path) exactly when its effective content type, the upstream Content-Type
\* or application/vnd.apple.mpegurl when there is none, contains 'mpegurl'
\* or the target URL ends with '.m3u8', and is piped otherwise; a successful
\* response without Content-Type is therefore never piped.
C20_ManifestBranchRule ==
    /\ UpstreamSucceeded => relay \in {"manifest", "pipe"}
    /\ relay # "none" =>
        /\ UpstreamSucceeded
        /\ relay = "manifest" <=> (HoldsMpegurl \/ EndsWithM3u8)
        /\ upstreamResponse.contentType = <<>> => relay = "manifest"
        /\ (relay = "manifest" /\ res.ended /\ ~bodyErrored)
              => res.body = replaceUrls(playlistText(playlist))
        /\ relay = "pipe" => \A i \in 1..Len(res.body) : res.body[i] = "chunk"

\* A response without Content-Type for a URL that does not end with .m3u8
\* was rewritten as a manifest
C20_Witness ==
    /\ relay = "manifest"
    /\ res.ended
    /\ ~bodyErrored
    /\ upstreamResponse.contentType = <<>>
    /\ request.url[Len(request.url)] = ".ts"
    /\ playlist # <<>>

=============================================================================
